---- MODULE Spec2Model ----
(***************************************************************************)
(* rustic: a minimal HTTP/1.1 server.  The model follows src/src/*.rs.     *)
(* A Rust String / &str is a sequence of one-character strings, so that    *)
(* splitting, trimming and comparing are computed as the code computes     *)
(* them.  Option and Result values are tagged records.                     *)
(***************************************************************************)
EXTENDS Integers, Sequences, FiniteSets, TLC

(* ------------------------------------------------------------------ *)
(* Option / Result                                                     *)
(* ------------------------------------------------------------------ *)
None == [tag |-> "None"]
Some(v) == [tag |-> "Some", val |-> v]
Ok(v) == [tag |-> "Ok", val |-> v]
Err(e) == [tag |-> "Err", err |-> e]

(* ------------------------------------------------------------------ *)
(* str primitives of the standard library used by the parsers          *)
(* ------------------------------------------------------------------ *)
Upper == <<"A","B","C","D","E","F","G","H","I","J","K","L","M",
           "N","O","P","Q","R","S","T","U","V","W","X","Y","Z">>
Lower == <<"a","b","c","d","e","f","g","h","i","j","k","l","m",
           "n","o","p","q","r","s","t","u","v","w","x","y","z">>
Digits == <<"0","1","2","3","4","5","6","7","8","9">>

\* char::is_whitespace on the ASCII range
IsWhitespace(ch) == ch \in {" ", "\t", "\n", "\r", "\f"}

\* char::to_lowercase on the ASCII range
ToLowerChar(ch) ==
    IF \E i \in 1..26 : Upper[i] = ch
    THEN Lower[CHOOSE i \in 1..26 : Upper[i] = ch]
    ELSE ch

\* str::to_lowercase
to_lowercase(s) == [i \in 1..Len(s) |-> ToLowerChar(s[i])]

\* str::starts_with
starts_with(s, p) == Len(s) >= Len(p) /\ SubSeq(s, 1, Len(p)) = p

\* str::find: the index (from 1) of the first occurrence of pat, 0 when absent
Find(s, pat) ==
    LET hits == {i \in 1..(Len(s) - Len(pat) + 1) : SubSeq(s, i, i + Len(pat) - 1) = pat}
    IN IF hits = {} THEN 0 ELSE CHOOSE i \in hits : \A j \in hits : i <= j

\* the text from index i (from 1) to the end
From(s, i) == SubSeq(s, i, Len(s))

\* str::split_once
split_once(s, pat) ==
    LET i == Find(s, pat)
    IN IF i = 0 THEN None
       ELSE Some(<<SubSeq(s, 1, i - 1), From(s, i + Len(pat))>>)

\* str::splitn(2, pat), collected
splitn2(s, pat) ==
    LET i == Find(s, pat)
    IN IF i = 0 THEN <<s>>
       ELSE <<SubSeq(s, 1, i - 1), From(s, i + Len(pat))>>

\* str::split(pat), collected: always at least one segment
RECURSIVE split(_, _)
split(s, pat) ==
    LET i == Find(s, pat)
    IN IF i = 0 THEN <<s>>
       ELSE <<SubSeq(s, 1, i - 1)>> \o split(From(s, i + Len(pat)), pat)

\* str::split_whitespace, collected: the maximal runs of non-whitespace
RECURSIVE split_whitespace(_)
split_whitespace(s) ==
    LET starts == {i \in 1..Len(s) : ~IsWhitespace(s[i])}
    IN IF starts = {} THEN <<>>
       ELSE LET b == CHOOSE i \in starts : \A j \in starts : i <= j
                stops == {i \in b..Len(s) : IsWhitespace(s[i])}
                e == IF stops = {} THEN Len(s) + 1
                     ELSE CHOOSE i \in stops : \A j \in stops : i <= j
            IN <<SubSeq(s, b, e - 1)>> \o split_whitespace(From(s, e))

\* str::trim_matches(ch)
trim_matches(s, ch) ==
    LET keep == {i \in 1..Len(s) : s[i] # ch}
    IN IF keep = {} THEN <<>>
       ELSE SubSeq(s, CHOOSE i \in keep : \A j \in keep : i <= j,
                      CHOOSE i \in keep : \A j \in keep : i >= j)

\* str::trim
trim(s) ==
    LET keep == {i \in 1..Len(s) : ~IsWhitespace(s[i])}
    IN IF keep = {} THEN <<>>
       ELSE SubSeq(s, CHOOSE i \in keep : \A j \in keep : i <= j,
                      CHOOSE i \in keep : \A j \in keep : i >= j)

DigitVal(ch) == (CHOOSE i \in 1..10 : Digits[i] = ch) - 1
IsDigit(ch) == \E i \in 1..10 : Digits[i] = ch

RECURSIVE DecimalValue(_)
DecimalValue(s) ==
    IF s = <<>> THEN 0
    ELSE 10 * DecimalValue(SubSeq(s, 1, Len(s) - 1)) + DigitVal(s[Len(s)])

\* The longest digit string whose value is computed here; usize holds 20
\* digits, the streams of this model declare lengths of at most MaxLenDigits.
MaxLenDigits == 6

\* str::parse::<usize>: an optional '+' and at least one digit, nothing else
parse_usize(s) ==
    LET d == IF s # <<>> /\ s[1] = "+" THEN Tail(s) ELSE s
    IN IF d # <<>> /\ (\A i \in 1..Len(d) : IsDigit(d[i])) /\ Len(d) <= MaxLenDigits
       THEN Ok(DecimalValue(d))
       ELSE Err("ParseIntError")

\* usize::to_string / u16's Display
RECURSIVE to_string(_)
to_string(n) ==
    IF n < 10 THEN <<Digits[n + 1]>>
    ELSE to_string(n \div 10) \o <<Digits[(n % 10) + 1]>>

\* HashMap::insert
insert(m, k, v) == [x \in DOMAIN m \cup {k} |-> IF x = k THEN v ELSE m[x]]
\* HashMap::new
EmptyMap == [x \in {} |-> <<>>]

(* ------------------------------------------------------------------ *)
(* connection.rs                                                       *)
(* ------------------------------------------------------------------ *)
Blocked == [tag |-> "Blocked"]

\* A byte that occurs in no UTF-8 text (0xFF), and the texts without it.
BadByte == "\\xFF"
IsUtf8(s) == \A i \in 1..Len(s) : s[i] # BadByte

\* line.unwrap() at connection.rs:67 on a line that is not UTF-8: lines()
\* yields Err and the calling thread panics.
Panicked == [tag |-> "Panicked"]

\* A reader that leaves the "\r" of a "\r\n" terminator on the line.
KeepCr(raw) == raw

\* One line as BufRead::lines yields it: the terminating "\n" is cut by the
\* caller, a "\r" right before it is cut here.
StripCr(raw) ==
    IF raw # <<>> /\ raw[Len(raw)] = "\r" THEN SubSeq(raw, 1, Len(raw) - 1) ELSE raw

\* The Content-Length scan of the header loop (connection.rs:71-77): the
\* declared length after reading `line`, given the length declared so far.
ScanContentLength(line, content_length) ==
    IF starts_with(to_lowercase(line), <<"c","o","n","t","e","n","t","-","l","e","n","g","t","h",":">>)
    THEN LET len == trim(split(line, <<":">>)[2])
             n == parse_usize(len)
         IN IF n.tag = "Ok" THEN n.val ELSE 0
    ELSE content_length

\* Body read (connection.rs:82-86): take(content_length).read_to_string over
\* what follows the header block; blocks while the peer may still send.
ReadBody(rest, fin, headers, content_length) ==
    IF Len(rest) < content_length /\ ~fin THEN Blocked
    ELSE LET taken == IF Len(rest) >= content_length
                      THEN SubSeq(rest, 1, content_length) ELSE rest
         IN [tag |-> "Ready", headers |-> headers,
             \* read_to_string leaves the String as it was when the bytes
             \* are not UTF-8, and unwrap_or(0) drops the error
             body |-> IF IsUtf8(taken) THEN taken ELSE <<>>]

\* Header loop (connection.rs:66-79) over the bytes not yet consumed.
RECURSIVE ReadHeaders(_, _, _, _)
ReadHeaders(bytes, fin, headers, content_length) ==
    LET nl == Find(bytes, <<"\n">>)
    IN IF nl = 0
       THEN IF ~fin THEN Blocked
            ELSE IF bytes = <<>>
                 THEN ReadBody(<<>>, fin, headers, content_length)
                 ELSE IF ~IsUtf8(bytes) THEN Panicked
                 ELSE ReadBody(<<>>, fin, Append(headers, bytes),
                               ScanContentLength(bytes, content_length))
       ELSE LET line == StripCr(SubSeq(bytes, 1, nl - 1))
                rest == From(bytes, nl + 1)
            IN IF ~IsUtf8(line) THEN Panicked
               ELSE IF line = <<>>
               THEN ReadBody(rest, fin, headers, content_length)
               ELSE ReadHeaders(rest, fin, Append(headers, line),
                                ScanContentLength(line, content_length))

\* handle_connection on a stream that has delivered `bytes`, `fin` telling
\* whether the peer has closed its sending side.
handle_connection(bytes, fin) == ReadHeaders(bytes, fin, <<>>, 0)

(* ------------------------------------------------------------------ *)
(* parse_headers.rs                                                    *)
(* ------------------------------------------------------------------ *)
RequestType == {"GET", "HEAD", "POST", "PUT", "PATCH", "UPDATE", "DELETE",
                "CONNECT", "OPTIONS", "TRACE"}

OnePointOne == [tag |-> "OnePointOne"]
\* An unsupported-version value that does not carry the token.
NotSupportedAnon(tok) == [tag |-> "NotSupported", val |-> <<>>]

NotSupported(tok) == [tag |-> "NotSupported", val |-> tok]

\* A first-token match that fails on nothing: a token outside the variants
\* becomes a variant of its own.  parse_headers.rs has no such arm.
MethodOfLenient(tok) ==
    CASE tok = <<"G","E","T">> -> "GET"
      [] tok = <<"H","E","A","D">> -> "HEAD"
      [] tok = <<"P","O","S","T">> -> "POST"
      [] tok = <<"P","U","T">> -> "PUT"
      [] tok = <<"D","E","L","E","T","E">> -> "DELETE"
      [] tok = <<"P","A","T","C","H">> -> "PATCH"
      [] tok = <<"U","P","D","A","T","E">> -> "UPDATE"
      [] tok = <<"C","O","N","N","E","C","T">> -> "CONNECT"
      [] tok = <<"O","P","T","I","O","N","S">> -> "OPTIONS"
      [] tok = <<"T","R","A","C","E">> -> "TRACE"
      [] OTHER -> "UNRECOGNIZED"

\* The match on the first token (parse_headers.rs:76-89): the variant, or
\* "" when no arm but the catch-all matches.
MethodOf(tok) ==
    CASE tok = <<"G","E","T">> -> "GET"
      [] tok = <<"H","E","A","D">> -> "HEAD"
      [] tok = <<"P","O","S","T">> -> "POST"
      [] tok = <<"P","U","T">> -> "PUT"
      [] tok = <<"D","E","L","E","T","E">> -> "DELETE"
      [] tok = <<"P","A","T","C","H">> -> "PATCH"
      [] tok = <<"U","P","D","A","T","E">> -> "UPDATE"
      [] tok = <<"C","O","N","N","E","C","T">> -> "CONNECT"
      [] tok = <<"O","P","T","I","O","N","S">> -> "OPTIONS"
      [] tok = <<"T","R","A","C","E">> -> "TRACE"
      [] OTHER -> ""

HttpVersion11 == <<"H","T","T","P","/","1",".","1">>

\* A header loop that keeps the first value of a name.
RECURSIVE HeaderMapFirst(_, _)
HeaderMapFirst(lines, header_map) ==
    IF lines = <<>> THEN header_map
    ELSE LET parts == splitn2(Head(lines), <<":", " ">>)
         IN HeaderMapFirst(Tail(lines),
                           IF Len(parts) = 2 /\ trim(parts[1]) \notin DOMAIN header_map
                           THEN insert(header_map, trim(parts[1]), trim(parts[2]))
                           ELSE header_map)

\* A header loop that stores every name in lower case.
RECURSIVE HeaderMapLower(_, _)
HeaderMapLower(lines, header_map) ==
    IF lines = <<>> THEN header_map
    ELSE LET parts == splitn2(Head(lines), <<":", " ">>)
         IN HeaderMapLower(Tail(lines),
                           IF Len(parts) = 2
                           THEN insert(header_map, to_lowercase(trim(parts[1])), trim(parts[2]))
                           ELSE header_map)

\* The header loop (parse_headers.rs:99-107) over the lines after the first.
RECURSIVE HeaderMap(_, _)
HeaderMap(lines, header_map) ==
    IF lines = <<>> THEN header_map
    ELSE LET parts == splitn2(Head(lines), <<":", " ">>)
         IN HeaderMap(Tail(lines),
                      IF Len(parts) = 2
                      THEN insert(header_map, trim(parts[1]), trim(parts[2]))
                      ELSE header_map)

\* A parser that takes a request line without a version token for HTTP/1.1
\* and reports every other failure as an invalid request line.
parse_headers_lenient(headers) ==
    LET split_request == IF headers = <<>> THEN <<>> ELSE split_whitespace(headers[1])
    IN IF split_request = <<>> \/ MethodOf(split_request[1]) = ""
       THEN Err([msg |-> "Invalid request line.", arg |-> <<>>])
       ELSE Ok([request_type |-> MethodOf(split_request[1]),
                http_type |-> IF Len(split_request) < 3 \/ split_request[3] = HttpVersion11
                              THEN OnePointOne
                              ELSE NotSupported(split_request[3]),
                headers_map |-> HeaderMap(Tail(headers), EmptyMap),
                url |-> IF Len(split_request) >= 2
                        THEN Some(split_request[2]) ELSE None])

\* A parse that does not ask for a version token: a request line of one or
\* two tokens parses, with an unsupported version.
parse_headers_any_length(headers) ==
    IF headers = <<>> THEN Err([msg |-> "No headers to parse.", arg |-> <<>>])
    ELSE LET split_request == split_whitespace(headers[1])
         IN IF Len(split_request) = 0
            THEN Err([msg |-> "Invalid request line.", arg |-> <<>>])
            ELSE IF MethodOf(split_request[1]) = ""
            THEN Err([msg |-> "Invalid request type: ", arg |-> split_request[1]])
            ELSE Ok([request_type |-> MethodOf(split_request[1]),
                     http_type |-> IF Len(split_request) >= 3 /\ split_request[3] = HttpVersion11
                                   THEN OnePointOne
                                   ELSE NotSupported(<<>>),
                     headers_map |-> HeaderMap(Tail(headers), EmptyMap),
                     url |-> IF Len(split_request) >= 2
                             THEN Some(split_request[2]) ELSE None])

parse_headers(headers) ==
    IF headers = <<>> THEN Err([msg |-> "No headers to parse.", arg |-> <<>>])
    ELSE LET split_request == split_whitespace(headers[1])
         IN IF Len(split_request) = 0
            THEN Err([msg |-> "Invalid request line.", arg |-> <<>>])
            ELSE IF MethodOf(split_request[1]) = ""
            THEN Err([msg |-> "Invalid request type: ", arg |-> split_request[1]])
            ELSE IF Len(split_request) < 3
            THEN Err([msg |-> "Invalid HTTP version.", arg |-> <<>>])
            ELSE Ok([request_type |-> MethodOf(split_request[1]),
                     http_type |-> IF split_request[3] = HttpVersion11
                                   THEN OnePointOne
                                   ELSE NotSupported(split_request[3]),
                     headers_map |-> HeaderMap(Tail(headers), EmptyMap),
                     url |-> IF Len(split_request) >= 2
                             THEN Some(split_request[2]) ELSE None])

(* ------------------------------------------------------------------ *)
(* parse_path.rs, parse_url.rs                                         *)
(* ------------------------------------------------------------------ *)
\* A parse_path that does not look for a scheme.
parse_path_no_scheme(url) ==
    LET so == split_once(url, <<"/">>)
    IN IF so.tag = "None" THEN None
       ELSE LET path == trim_matches(so.val[2], "/")
            IN IF path = <<>> THEN None ELSE Some(path)

parse_path(url) ==
    LET i == Find(url, <<":", "/", "/">>)
        so == IF i = 0 THEN split_once(url, <<"/">>)
              ELSE split_once(From(url, i + 3), <<"/">>)
    IN IF so.tag = "None" THEN None
       ELSE LET path == trim_matches(so.val[2], "/")
            IN IF path = <<>> THEN None ELSE Some(path)

\* A collect() that keeps the first value of a key.
RECURSIVE CollectParamsFirst(_, _)
CollectParamsFirst(segs, m) ==
    IF segs = <<>> THEN m
    ELSE LET kv == split_once(Head(segs), <<"=">>)
         IN CollectParamsFirst(Tail(segs),
                               IF kv.tag = "Some" /\ kv.val[1] \notin DOMAIN m
                               THEN insert(m, kv.val[1], kv.val[2]) ELSE m)

\* collect() into a HashMap: the pairs are inserted in order
RECURSIVE CollectParams(_, _)
CollectParams(segs, m) ==
    IF segs = <<>> THEN m
    ELSE LET kv == split_once(Head(segs), <<"=">>)
         IN CollectParams(Tail(segs),
                          IF kv.tag = "Some" THEN insert(m, kv.val[1], kv.val[2]) ELSE m)

parse_url_param(url) ==
    LET so == split_once(url, <<"?">>)
        params == IF so.tag = "Some" THEN so.val[2] ELSE <<>>
    IN CollectParams(split(params, <<"&">>), EmptyMap)


(* ------------------------------------------------------------------ *)
(* http11_response.rs                                                  *)
(* ------------------------------------------------------------------ *)
HdrDate == <<"D","a","t","e">>
HdrContentLength == <<"C","o","n","t","e","n","t","-","L","e","n","g","t","h">>

\* get_current_utc_date: the formatted clock reading.  The clock belongs to
\* the environment; these are two readings one second apart.
Dates == {<<"S","u","n",","," ","0","7"," ","J","u","l"," ","2","0","2","4"," ","1","2",":","0","0",":","0","0"," ","G","M","T">>,
          <<"S","u","n",","," ","0","7"," ","J","u","l"," ","2","0","2","4"," ","1","2",":","0","0",":","0","1"," ","G","M","T">>}

\* A status line without the space after the reason phrase.
write_status_header_tight(status_code, reason) ==
    <<"H","T","T","P","/","1",".","1"," ">> \o to_string(status_code) \o <<" ">> \o reason \o <<"\r", "\n">>

write_status_header(status_code, reason) ==
    <<"H","T","T","P","/","1",".","1"," ">> \o to_string(status_code) \o <<" ">> \o reason \o <<" ", "\r", "\n">>

\* A header mapping in which the values the caller supplied for Date and
\* Content-Length are kept.
KeepSuppliedHeaders(headers, body, date) ==
    LET computed == insert(insert(EmptyMap, HdrDate, date), HdrContentLength,
                           IF body.tag = "Some" THEN to_string(Len(body.val)) ELSE <<"0">>)
    IN [k \in DOMAIN headers \cup DOMAIN computed |->
           IF k \in DOMAIN headers THEN headers[k] ELSE computed[k]]

\* The header mapping as write_header leaves it (http11_response.rs:95-100).
WithComputedHeaders(headers, body, date) ==
    insert(insert(headers, HdrDate, date), HdrContentLength,
           IF body.tag = "Some" THEN to_string(Len(body.val)) ELSE <<"0">>)

\* The iteration orders a HashMap with these keys can have.
Orders(m) ==
    {o \in [1..Cardinality(DOMAIN m) -> DOMAIN m] :
        \A i, j \in 1..Cardinality(DOMAIN m) : i # j => o[i] # o[j]}

RECURSIVE HeaderLines(_, _)
HeaderLines(m, order) ==
    IF order = <<>> THEN <<>>
    ELSE Head(order) \o <<":", " ">> \o m[Head(order)] \o <<"\r", "\n">>
         \o HeaderLines(m, Tail(order))

\* write_header, `date` being the clock reading and `order` the order in
\* which the map is iterated.
write_header(headers, body, date, order) ==
    HeaderLines(WithComputedHeaders(headers, body, date), order) \o <<"\r", "\n">>

\* The bytes write_connection hands to write_all.
write_connection(response, date, order) ==
    write_status_header(response.status_code, response.reason)
    \o write_header(response.headers, response.response_body, date, order)
    \o (IF response.response_body.tag = "Some" THEN response.response_body.val ELSE <<>>)

\* Every byte sequence write_connection can produce for a response.
Encodings(response) ==
    {write_connection(response, date, order) :
        date \in Dates,
        order \in Orders(WithComputedHeaders(response.headers, response.response_body,
                                             CHOOSE d \in Dates : TRUE))}

(* ------------------------------------------------------------------ *)
(* app.rs: the route table                                             *)
(* ------------------------------------------------------------------ *)
\* Handlers the host registers: `hello` answers every request with the
\* response of hello_world in tests/integration_test.rs, without a header of
\* its own; no_reply returns None.
Mappers == {"hello", "no_reply"}

Call(mapper, request) ==
    IF mapper = "hello"
    THEN Some([status_code |-> 200,
               reason |-> <<"O", "k">>,
               response_body |-> Some(<<"H", "i", "!">>),
               headers |-> EmptyMap])
    ELSE None

Endpoint(path, request, mapper) == [path |-> path, request |-> request, mapper |-> mapper]

\* A registration that puts the new endpoint in front of the older ones.
add_endpoint_front(endpoints, path, request, mapper) ==
    <<Endpoint(path, request, mapper)>> \o endpoints

\* App::add_endpoint
add_endpoint(endpoints, path, request, mapper) ==
    Append(endpoints, Endpoint(path, request, mapper))

\* The scan of App::match_endpoint from position i on.
RECURSIVE ScanEndpoints(_, _, _, _)
ScanEndpoints(endpoints, i, path, request_type) ==
    IF i > Len(endpoints) THEN Err("No matching endpoint found")
    ELSE IF endpoints[i].path = path /\ endpoints[i].request = request_type
         THEN Ok(i)
         ELSE ScanEndpoints(endpoints, i + 1, path, request_type)

\* A lookup that compares the path and not the method.
match_endpoint_any_method(endpoints, path, request_type) ==
    LET hits == {i \in 1..Len(endpoints) : endpoints[i].path = path}
    IN IF hits = {} THEN Err("No matching endpoint found")
       ELSE Ok(CHOOSE i \in hits : \A j \in hits : i <= j)

\* App::match_endpoint; Ok(i) is the reference to endpoints[i].
match_endpoint(endpoints, path, request_type) ==
    ScanEndpoints(endpoints, 1, path, request_type)


(* ------------------------------------------------------------------ *)
(* Bounds and the inputs of the model                                  *)
(* ------------------------------------------------------------------ *)
\* Connections the listener is offered during one run.
MaxConns == 2
\* Endpoints registered on one App.
MaxEndpoints == 2

Conns == 1..MaxConns

PathTest == <<"t","e","s","t">>
PathA == <<"a">>

\* What a peer sends: `first` arrives with the connection, `rest` later, if
\* the peer ever sends it.
Peer(first, rest) == [first |-> first, rest |-> rest]

ReqPost == <<"P","O","S","T"," ","/","t","e","s","t"," ","H","T","T","P","/","1",".","1","\r","\n","C","o","n","t","e","n","t","-","L","e","n","g","t","h",":"," ","2","\r","\n","\r","\n","h","i">>
ReqGetQuery == <<"G","E","T"," ","/","t","e","s","t","?","k","=","v"," ","H","T","T","P","/","1",".","1","\r","\n","H","o","s","t",":"," ","h","\r","\n","\r","\n">>
ReqBrew == <<"B","R","E","W"," ","/","t","e","s","t"," ","H","T","T","P","/","1",".","1","\r","\n","\r","\n">>
ReqNoVersion == <<"G","E","T"," ","/","t","e","s","t","\r","\n","\r","\n">>
ReqNoLines == <<"\r", "\n">>
ReqBlankLine == <<" ", "\r", "\n", "\r", "\n">>
ReqRoot == <<"G","E","T"," ","/"," ","H","T","T","P","/","1",".","1","\r","\n","\r","\n">>
ReqNope == <<"P","O","S","T"," ","/","n","o","p","e"," ","H","T","T","P","/","1",".","1","\r","\n","\r","\n">>

Requests ==
    { Peer(ReqPost, <<>>),        \* POST /test with a two-byte body
      Peer(ReqGetQuery, <<>>),    \* GET with a query string
      Peer(ReqBrew, <<>>),        \* a method outside the closed set
      Peer(ReqNoVersion, <<>>),   \* request line without a version token
      Peer(ReqNoLines, <<>>),     \* no header lines at all
      Peer(ReqBlankLine, <<>>),   \* a request line of whitespace only
      Peer(ReqRoot, <<>>),        \* a target without a path
      Peer(ReqNope, <<>>),        \* a path nobody registered
      \* a header block the peer has not finished
      Peer(<<"G","E","T"," ","/","t","e","s","t"," ","H","T","T","P","/","1",".","1","\r","\n","H","o">>,
           <<"s","t",":"," ","h","\r","\n","\r","\n">>),
      \* a declared body the peer has not finished
      Peer(<<"P","O","S","T"," ","/","n","o","p","e"," ","H","T","T","P","/","1",".","1","\r","\n","C","o","n","t","e","n","t","-","L","e","n","g","t","h",":"," ","2","\r","\n","\r","\n","h">>,
           <<"i">>) }

\* The apps handed to run.
Apps ==
    { <<Endpoint(PathTest, "POST", "hello")>>,
      <<Endpoint(PathTest, "POST", "no_reply"), Endpoint(PathTest, "POST", "hello")>>,
      <<Endpoint(PathTest, "GET", "no_reply"), Endpoint(PathTest, "POST", "hello")>> }

(* ------------------------------------------------------------------ *)
(* State                                                               *)
(* ------------------------------------------------------------------ *)
VARIABLES
    endpoints,   \* App.endpoints
    listener,    \* run's accept loop: "assembling" before run, then
                 \* "accepting", "stopped" once the loop has ended
    conn,        \* per connection: the stream and the worker thread's locals
    probe        \* the last direct call of a function and what it returned

vars == <<endpoints, listener, conn, probe>>

NoProbe == [fn |-> "none"]

\* What the worker thread holds before handle_connection returns.
NoLocals ==
    [headers |-> <<>>, body |-> <<>>,
     parsed |-> None, url_params |-> EmptyMap, path |-> None,
     lookups |-> <<>>, endpoint |-> 0, response |-> None]

\* A connection nobody has opened yet.  `lookups`, `calls` and `wrote` record
\* the calls of match_endpoint, of the handler and of write_all.
IdleConn ==
    [pc |-> "idle", rx |-> <<>>, rest |-> <<>>, fin |-> FALSE,
     headers |-> <<>>, body |-> <<>>,
     parsed |-> None, url_params |-> EmptyMap, path |-> None,
     lookups |-> <<>>, endpoint |-> 0, response |-> None,
     calls |-> <<>>, wrote |-> <<>>]

\* r with the fields of s overwritten
Merge(r, s) == [k \in DOMAIN r |-> IF k \in DOMAIN s THEN s[k] ELSE r[k]]

\* run(app, port, verbose) has bound the listener and wrapped the app.
Init ==
    /\ endpoints \in Apps
    /\ listener = "accepting"
    /\ conn = [c \in Conns |-> IdleConn]
    /\ probe = NoProbe

(* ------------------------------------------------------------------ *)
(* The peers                                                           *)
(* ------------------------------------------------------------------ *)
\* The peer sends what it held back.  Bytes that arrive after
\* handle_connection has returned are never read, so only a connection
\* still being read is followed.
SendRest(c) ==
    /\ conn[c].pc = "reading"
    /\ conn[c].rest # <<>>
    /\ ~conn[c].fin
    /\ conn' = [conn EXCEPT ![c].rx = @ \o conn[c].rest, ![c].rest = <<>>]
    /\ UNCHANGED <<endpoints, listener, probe>>

(* ------------------------------------------------------------------ *)
(* run: the worker thread of one connection (app.rs:100-128)           *)
(* ------------------------------------------------------------------ *)
\* The response a router answering misses would make up.
NotFound ==
    [status_code |-> 404,
     reason |-> <<"N","o","t"," ","F","o","u","n","d">>,
     response_body |-> None,
     headers |-> EmptyMap]

\* A worker that answers a lookup miss with NotFound instead of leaving.
RoutedOr404(headers, body, eps) ==
    LET w == [NoLocals EXCEPT !.headers = headers, !.body = body]
        ph == parse_headers(headers)
    IN IF ph.tag = "Err" THEN w @@ [pc |-> "panicked"]
       ELSE IF ph.val.url.tag = "None"
            THEN [w EXCEPT !.parsed = Some(ph.val)] @@ [pc |-> "closed"]
       ELSE LET url_str == ph.val.url.val
                path == parse_path(url_str)
                w1 == [w EXCEPT !.parsed = Some(ph.val),
                                !.url_params = parse_url_param(url_str)]
            IN IF path.tag = "None" THEN w1 @@ [pc |-> "panicked"]
               ELSE LET m == match_endpoint(eps, path.val, ph.val.request_type)
                        w2 == [w1 EXCEPT !.path = path,
                                         !.lookups = <<<<path.val, ph.val.request_type>>>>]
                    IN IF m.tag = "Ok"
                       THEN [w2 EXCEPT !.endpoint = m.val] @@ [pc |-> "invoking"]
                       ELSE [w2 EXCEPT !.response = Some(NotFound)] @@ [pc |-> "writing"]

\* The worker's locals after app.rs:102-109, from what handle_connection
\* returned: parse_headers(..).unwrap(), the url branch, parse_url_param,
\* parse_path(..).unwrap(), match_endpoint.  A failed unwrap ends the thread.
Routed(headers, body, eps) ==
    LET w == [NoLocals EXCEPT !.headers = headers, !.body = body]
        ph == parse_headers(headers)
    IN IF ph.tag = "Err" THEN w @@ [pc |-> "panicked"]
       ELSE IF ph.val.url.tag = "None"
            THEN [w EXCEPT !.parsed = Some(ph.val)] @@ [pc |-> "closed"]
       ELSE LET url_str == ph.val.url.val
                url_params == parse_url_param(url_str)
                path == parse_path(url_str)
            IN IF path.tag = "None"
               THEN [w EXCEPT !.parsed = Some(ph.val),
                              !.url_params = url_params] @@ [pc |-> "panicked"]
               ELSE LET m == match_endpoint(eps, path.val, ph.val.request_type)
                        w1 == [w EXCEPT !.parsed = Some(ph.val),
                                        !.url_params = url_params,
                                        !.path = path,
                                        !.lookups = <<<<path.val, ph.val.request_type>>>>]
                    IN IF m.tag = "Ok"
                       THEN [w1 EXCEPT !.endpoint = m.val] @@ [pc |-> "invoking"]
                       ELSE w1 @@ [pc |-> "closed"]

\* The streams a connection of this model can have delivered.
Streams == UNION {{r.first, r.first \o r.rest} : r \in Requests}

\* handle_connection on the streams of the model, computed once.
HandleConnectionTable ==
    {<<bytes, fin, handle_connection(bytes, fin)>> :
        bytes \in Streams, fin \in BOOLEAN}

\* What handle_connection(&mut stream) at app.rs:101 gives on a stream that
\* has delivered `bytes`.
Delivered(bytes, fin) ==
    IF bytes \in Streams
    THEN (CHOOSE t \in HandleConnectionTable : t[1] = bytes /\ t[2] = fin)[3]
    ELSE handle_connection(bytes, fin)

\* app.rs:101-109 on a stream that has delivered `bytes`: Blocked while
\* handle_connection waits for the peer, else the worker's locals and where
\* it goes on.
ReadAndRoute(eps, bytes, fin) ==
    LET r == Delivered(bytes, fin)
    IN IF r.tag = "Blocked" THEN Blocked
       ELSE IF r.tag = "Panicked"
       THEN [tag |-> "Ready", locals |-> NoLocals @@ [pc |-> "panicked"]]
       ELSE [tag |-> "Ready", locals |-> Routed(r.headers, r.body, eps)]

\* The peer closes its sending side.  The worker sees the end of the stream
\* only while a read is waiting for more bytes.
Fin(c) ==
    /\ conn[c].pc = "reading"
    /\ ~conn[c].fin
    /\ Delivered(conn[c].rx, FALSE) = Blocked
    /\ conn' = [conn EXCEPT ![c].fin = TRUE]
    /\ UNCHANGED <<endpoints, listener, probe>>

\* A server that serves one connection at a time: a worker runs only once
\* every connection accepted before its own has ended.
CanRunSerial(c) ==
    \A d \in Conns : d < c => conn[d].pc \in {"closed", "panicked", "failed"}

\* thread::spawn (app.rs:100): a worker runs whatever the other workers and
\* the accept loop are doing.
CanRun(c) == TRUE

\* The worker can leave handle_connection (app.rs:101): it is scheduled and
\* the stream has delivered what handle_connection reads.
ReadEnabled(c) ==
    /\ conn[c].pc = "reading"
    /\ CanRun(c)
    /\ Delivered(conn[c].rx, conn[c].fin) # Blocked

\* app.rs:101-109: handle_connection returns, the request is parsed and
\* looked up.  The step waits while handle_connection is blocked on the
\* stream; what follows the read is local to the thread and defined for
\* every stream, so the step is enabled exactly when ReadEnabled holds.
Read(c) ==
    /\ ReadEnabled(c)
    /\ conn' = [conn EXCEPT
                  ![c] = Merge(conn[c],
                               ReadAndRoute(endpoints, conn[c].rx, conn[c].fin).locals)]
    /\ UNCHANGED <<endpoints, listener, probe>>

\* A Request built without the body.
RequestOfNoBody(c) ==
    [headers |-> conn[c].parsed.val.headers_map,
     body |-> <<>>,
     url_params |-> conn[c].url_params]

\* A Request whose body comes from one buffer all workers share, here the
\* one the first connection filled.
RequestOfShared(c) ==
    [headers |-> conn[c].parsed.val.headers_map,
     body |-> conn[1].body,
     url_params |-> conn[c].url_params]

\* The Request built at app.rs:111-115.
RequestOf(c) ==
    [headers |-> conn[c].parsed.val.headers_map,
     body |-> conn[c].body,
     url_params |-> conn[c].url_params]

\* A worker that takes the handler out of the table when it calls it, so
\* that the endpoint answers nothing from then on.
InvokeOnce(c) ==
    /\ conn[c].pc = "invoking"
    /\ CanRun(c)
    /\ LET mapper == endpoints[conn[c].endpoint].mapper
           response == Call(mapper, RequestOf(c))
       IN conn' = [conn EXCEPT
                     ![c].calls = Append(@, [mapper |-> mapper, request |-> RequestOf(c)]),
                     ![c].response = response,
                     ![c].pc = IF response.tag = "Some" THEN "writing" ELSE "closed"]
    /\ endpoints' = [endpoints EXCEPT ![conn[c].endpoint].mapper = "no_reply"]
    /\ UNCHANGED <<listener, probe>>

\* (endpoint.mapper)(request) at app.rs:117.
Invoke(c) ==
    /\ conn[c].pc = "invoking"
    /\ CanRun(c)
    /\ LET mapper == endpoints[conn[c].endpoint].mapper
           response == Call(mapper, RequestOf(c))
       IN conn' = [conn EXCEPT
                     ![c].calls = Append(@, [mapper |-> mapper, request |-> RequestOf(c)]),
                     ![c].response = response,
                     ![c].pc = IF response.tag = "Some" THEN "writing" ELSE "closed"]
    /\ UNCHANGED <<endpoints, listener, probe>>

\* A worker that keeps the connection after a successful write and goes back
\* to reading the next request from it.
WriteKeepAlive(c) ==
    /\ conn[c].pc = "writing"
    /\ CanRun(c)
    /\ \E bytes \in Encodings(conn[c].response.val), ok \in BOOLEAN :
          conn' = [conn EXCEPT ![c].wrote = Append(@, bytes),
                               ![c].rx = IF ok /\ conn[c].wrote = <<>> THEN <<>> ELSE @,
                               ![c].pc = IF ~ok THEN "panicked"
                                         ELSE IF conn[c].wrote = <<>> THEN "reading"
                                         ELSE "closed"]
    /\ UNCHANGED <<endpoints, listener, probe>>

\* write_connection(&mut stream, response) at app.rs:118: one write_all of
\* the encoded response.  write_all either succeeds or fails, and the unwrap
\* at http11_response.rs:143 panics then.  Either way the thread ends and
\* drops the stream.
Write(c) ==
    /\ conn[c].pc = "writing"
    /\ CanRun(c)
    /\ \E bytes \in Encodings(conn[c].response.val), ok \in BOOLEAN :
          conn' = [conn EXCEPT ![c].wrote = Append(@, bytes),
                               ![c].pc = IF ok THEN "closed" ELSE "panicked"]
    /\ UNCHANGED <<endpoints, listener, probe>>

Worker(c) == Read(c) \/ Invoke(c) \/ Write(c)

(* ------------------------------------------------------------------ *)
(* run: the accept loop (app.rs:95-136)                                *)
(* ------------------------------------------------------------------ *)
\* Connections are numbered in the order listener.incoming() yields them.
NextConn(c) ==
    /\ conn[c].pc = "idle"
    /\ \A d \in Conns : d < c => conn[d].pc # "idle"

\* Ok(stream): a worker thread is spawned for it (app.rs:97-100).
Accept(c) ==
    /\ listener = "accepting"
    /\ NextConn(c)
    /\ \E r \in Requests :
          conn' = [conn EXCEPT ![c] = [IdleConn EXCEPT !.pc = "reading",
                                                       !.rx = r.first,
                                                       !.rest = r.rest]]
    /\ UNCHANGED <<endpoints, listener, probe>>

\* An accept loop that ends at the first Err(e) item.
AfterAcceptErrorStops == "stopped"

\* The state of the loop after an Err(e) item: it is reported when verbose
\* and the loop takes the next item (app.rs:130-134).
AfterAcceptError == "accepting"

AcceptErr(c) ==
    /\ listener = "accepting"
    /\ NextConn(c)
    /\ conn' = [conn EXCEPT ![c].pc = "failed"]
    /\ listener' = AfterAcceptError
    /\ UNCHANGED <<endpoints, probe>>

Next ==
    \E c \in Conns :
        \/ Accept(c)
        \/ AcceptErr(c)
        \/ SendRest(c)
        \/ Fin(c)
        \/ Read(c)
        \/ Invoke(c)
        \/ Write(c)

Spec == Init /\ [][Next]_vars

\* Weak fairness of Read(c), written out.  Read(c) is enabled exactly when
\* ReadEnabled(c) holds, and the Read(c) steps are the steps that take
\* conn[c].pc away from "reading": no other action does.
FairRead(c) ==
    \/ []<>(~ReadEnabled(c))
    \/ []<><<ReadEnabled(c) /\ conn'[c].pc # "reading">>_vars

\* run with its threads scheduled: a worker thread that can take a step
\* (thread::spawn, app.rs:100) takes it eventually.  Nothing is assumed of
\* the peers or of the accept loop.
SpecFair ==
    Spec /\ \A c \in Conns : FairRead(c) /\ WF_vars(Invoke(c) \/ Write(c))

(* ------------------------------------------------------------------ *)
(* Assembling an App: App::new, add_endpoint, match_endpoint           *)
(* ------------------------------------------------------------------ *)
Paths == {PathTest, PathA}
Methods == {"GET", "POST"}

\* App::new()
InitApp ==
    /\ endpoints = <<>>
    /\ listener = "assembling"
    /\ conn = [c \in Conns |-> IdleConn]
    /\ probe = NoProbe

AddEndpoint(path, request, mapper) ==
    /\ Len(endpoints) < MaxEndpoints
    /\ endpoints' = add_endpoint(endpoints, path, request, mapper)
    /\ UNCHANGED <<listener, conn, probe>>

\* A call of match_endpoint on the app as it is now.
MatchEndpoint(path, request_type) ==
    /\ probe' = [fn |-> "match_endpoint",
                 on |-> endpoints,
                 arg |-> <<path, request_type>>,
                 ret |-> match_endpoint(endpoints, path, request_type)]
    /\ UNCHANGED <<endpoints, listener, conn>>

NextApp ==
    \E path \in Paths, request \in Methods :
        \/ \E mapper \in Mappers : AddEndpoint(path, request, mapper)
        \/ MatchEndpoint(path, request)

SpecApp == InitApp /\ [][NextApp]_vars

(* ------------------------------------------------------------------ *)
(* parse_headers on header blocks                                      *)
(* ------------------------------------------------------------------ *)
\* Header lines after the request line in one block.
MaxHeaderLines == 2

\* First tokens: the ten variants of RequestType and tokens that are none.
MethodTokens ==
    {<<"G","E","T">>, <<"H","E","A","D">>, <<"P","O","S","T">>, <<"P","U","T">>, <<"P","A","T","C","H">>, <<"U","P","D","A","T","E">>, <<"D","E","L","E","T","E">>,
     <<"C","O","N","N","E","C","T">>, <<"O","P","T","I","O","N","S">>, <<"T","R","A","C","E">>,
     <<"g","e","t">>, <<"P","o","s","t">>, <<"B","R","E","W">>, <<"G","E","T","S">>}

Target == <<"/","t","e","s","t">>
\* A target with a query string.
TargetQuery == <<"/","a","?","k","=","v">>
VersionTokens == {<<"H","T","T","P","/","1",".","1">>, <<"H","T","T","P","/","1",".","0">>}

\* Request lines: a first token, then a target, then a version, spaced as
\* given; and lines with no token at all.
RequestLines ==
    {m : m \in MethodTokens}
    \cup {m \o <<" ">> \o Target : m \in MethodTokens}
    \cup {m \o <<" ">> \o Target \o <<" ">> \o v : m \in MethodTokens, v \in VersionTokens}
    \cup {<<" ">> \o m \o <<" ", " ">> \o Target \o <<"\t">> \o v : m \in {<<"G","E","T">>, <<"B","R","E","W">>}, v \in VersionTokens}
    \cup {<<" ">>, <<" ", "\t">>}
    \cup {<<"G","E","T"," ">> \o TargetQuery \o <<" ">> \o v : v \in VersionTokens}

HeaderLineSamples ==
    {<<"H","o","s","t",":"," ","h">>, <<"A","c","c","e","p","t">>, <<"H","o","s","t",":"," "," ","z"," ">>,
     <<"h","o","s","t",":"," ","h">>, <<" ","H","o","s","t"," ",":"," ","x">>, <<"a",":"," ","b",":"," ","c">>}

RECURSIVE SeqsUpTo(_, _)
SeqsUpTo(S, n) ==
    IF n = 0 THEN {<<>>}
    ELSE SeqsUpTo(S, n - 1) \cup {Append(s, e) : s \in {t \in SeqsUpTo(S, n - 1) : Len(t) = n - 1}, e \in S}

HeaderBlocks ==
    {<<>>} \cup {<<l>> \o hs : l \in RequestLines, hs \in SeqsUpTo(HeaderLineSamples, MaxHeaderLines)}

InitParse ==
    /\ endpoints = <<>>
    /\ listener = "assembling"
    /\ conn = [c \in Conns |-> IdleConn]
    /\ probe \in {[fn |-> "input", arg |-> h] : h \in HeaderBlocks}

ParseHeaders ==
    /\ probe.fn = "input"
    /\ probe' = [fn |-> "parse_headers", arg |-> probe.arg, ret |-> parse_headers(probe.arg)]
    /\ UNCHANGED <<endpoints, listener, conn>>

NextParse == ParseHeaders

SpecParse == InitParse /\ [][NextParse]_vars

(* ------------------------------------------------------------------ *)
(* handle_connection on byte streams                                   *)
(* ------------------------------------------------------------------ *)
\* Lines before the blank line in one stream.
MaxReadLines == 2

LF == <<"\n">>
CRLF == <<"\r", "\n">>

\* Lines a peer sends: a request line, Content-Length in several spellings
\* and with several values, a line that is not UTF-8.
ReadLineSamples ==
    {<<"G"," ","/">>,
     <<"C","o","n","t","e","n","t","-","L","e","n","g","t","h",":"," ","2">>,
     <<"c","o","n","t","e","n","t","-","l","e","n","g","t","h",":","1">>,
     <<"C","o","n","t","e","n","t","-","L","e","n","g","t","h",":"," ","x">>,
     <<"C","o","n","t","e","n","t","-","L","e","n","g","t","h"," ",":"," ","2">>,
     <<"C","o","n","t","e","n","t","-","L","e","n","g","t","h",":"," ","1",":","9">>,
     <<"H">> \o <<BadByte>>}

\* What a peer sends after the blank line.
ReadBodySamples ==
    {<<>>, <<"h">>, <<"h","i","!">>, <<"h">> \o <<BadByte>> \o <<"!">>}

RECURSIVE Join(_, _)
Join(lines, term) ==
    IF lines = <<>> THEN <<>> ELSE Head(lines) \o term \o Join(Tail(lines), term)

\* The streams: lines with one kind of terminator, then the blank line or
\* not, then what follows.
ReadStreams ==
    {Join(ls, term) \o blank \o b :
        ls \in SeqsUpTo(ReadLineSamples, MaxReadLines),
        term \in {LF, CRLF}, blank \in {<<>>, LF, CRLF}, b \in ReadBodySamples}

InitRead ==
    /\ endpoints = <<>>
    /\ listener = "assembling"
    /\ conn = [c \in Conns |-> IdleConn]
    /\ probe \in {[fn |-> "stream", bytes |-> s, fin |-> f] :
                     s \in ReadStreams, f \in BOOLEAN}

\* handle_connection on the stream, once it has what it waits for.
HandleConnection ==
    /\ probe.fn = "stream"
    /\ handle_connection(probe.bytes, probe.fin) # Blocked
    /\ probe' = [fn |-> "handle_connection", bytes |-> probe.bytes, fin |-> probe.fin,
                 ret |-> handle_connection(probe.bytes, probe.fin)]
    /\ UNCHANGED <<endpoints, listener, conn>>

\* The peer closes its sending side while handle_connection waits.
CloseStream ==
    /\ probe.fn = "stream"
    /\ ~probe.fin
    /\ handle_connection(probe.bytes, probe.fin) = Blocked
    /\ probe' = [probe EXCEPT !.fin = TRUE]
    /\ UNCHANGED <<endpoints, listener, conn>>

NextRead == HandleConnection \/ CloseStream

SpecRead == InitRead /\ [][NextRead]_vars

(* ------------------------------------------------------------------ *)
(* write_connection on responses                                       *)
(* ------------------------------------------------------------------ *)
HdrContentType == <<"C","o","n","t","e","n","t","-","T","y","p","e">>

\* Status codes and reason phrases a handler answers with.
StatusCodes == {200, 404}
Reasons == {<<"O","K">>, <<"N","o","t"," ","F","o","u","n","d">>}

\* Header mappings a handler supplies: none, one of its own, its own Date
\* and Content-Length, and a Content-Length spelled in lower case.
SuppliedHeaders ==
    {EmptyMap,
     insert(EmptyMap, HdrContentType, <<"t","e","x","t","/","p","l","a","i","n">>),
     insert(EmptyMap, HdrDate, <<"y","e","s","t","e","r","d","a","y">>),
     insert(EmptyMap, HdrContentLength, <<"9","9">>),
     insert(EmptyMap, to_lowercase(HdrContentLength), <<"9","9">>),
     insert(insert(insert(EmptyMap, HdrContentType, <<"t","e","x","t","/","p","l","a","i","n">>), HdrDate, <<"y","e","s","t","e","r","d","a","y">>),
            HdrContentLength, <<"9","9">>)}

\* Bodies: absent, empty, short, of two digits' length, and one whose
\* second character takes two bytes.
Bodies ==
    {None, Some(<<>>), Some(<<"H","i","!">>), Some(<<"H","e","l","l","o",","," ","w","o","r","l","d","!">>), Some(<<"n", "\\xC3", "\\xA9">>)}

Responses ==
    {[status_code |-> s, reason |-> r, response_body |-> b, headers |-> h] :
        s \in StatusCodes, r \in Reasons, b \in Bodies, h \in SuppliedHeaders}

InitEncode ==
    /\ endpoints = <<>>
    /\ listener = "assembling"
    /\ conn = [c \in Conns |-> IdleConn]
    /\ probe \in {[fn |-> "response", arg |-> r] : r \in Responses}

\* write_connection up to the bytes it hands to write_all; the clock reading
\* and the iteration order of the map are the environment's.
WriteConnection ==
    /\ probe.fn = "response"
    /\ \E date \in Dates :
          \E order \in Orders(WithComputedHeaders(probe.arg.headers,
                                                  probe.arg.response_body, date)) :
              probe' = [fn |-> "write_connection", arg |-> probe.arg, date |-> date,
                        ret |-> write_connection(probe.arg, date, order)]
    /\ UNCHANGED <<endpoints, listener, conn>>

NextEncode == WriteConnection

SpecEncode == InitEncode /\ [][NextEncode]_vars

(* ------------------------------------------------------------------ *)
(* parse_path and parse_url_param on strings                           *)
(* ------------------------------------------------------------------ *)
\* The longest string over UrlAlphabet given to the parsers.
MaxUrlLen == 6
\* The most segments of a query string.
MaxParams == 2

UrlAlphabet == {":", "/", "a"}

RECURSIVE StringsUpTo(_, _)
StringsUpTo(alphabet, n) ==
    IF n = 0 THEN {<<>>}
    ELSE LET shorter == StringsUpTo(alphabet, n - 1)
         IN shorter \cup {Append(s, ch) : s \in {t \in shorter : Len(t) = n - 1},
                                          ch \in alphabet}

\* The urls of the documentation and the tests of parse_path.rs.
PathSamples ==
    {<<"h","t","t","p","s",":","/","/","e","x","a","m","p","l","e",".","c","o","m","/","a","/","b","/">>,
     <<"e","x","a","m","p","l","e",".","c","o","m","/","a","/","b">>,
     <<"h","t","t","p","s",":","/","/","e","x","a","m","p","l","e",".","c","o","m">>}

\* Segments of a query string: with and without "=", with an empty key or
\* value, with a second "=", with a repeated key, with a percent escape,
\* with a second "?".
ParamSegments ==
    {<<>>, <<"k">>, <<"k","=">>, <<"=","v">>, <<"k","=","v">>, <<"k","=","w">>, <<"k","=","v","=","w">>, <<"j","=","%","2","0">>, <<"k","?","=","v">>}

RECURSIVE JoinedUpTo(_, _, _)
JoinedUpTo(segments, sep, n) ==
    IF n = 1 THEN segments
    ELSE LET shorter == JoinedUpTo(segments, sep, n - 1)
         IN shorter \cup {q \o sep \o s : q \in shorter, s \in segments}

ParamSamples ==
    {prefix \o <<"?">> \o q : prefix \in {<<>>, <<"/","a">>},
                               q \in JoinedUpTo(ParamSegments, <<"&">>, MaxParams)}

Urls == StringsUpTo(UrlAlphabet, MaxUrlLen) \cup PathSamples \cup ParamSamples

InitUrl ==
    /\ endpoints = <<>>
    /\ listener = "assembling"
    /\ conn = [c \in Conns |-> IdleConn]
    /\ probe \in {[fn |-> "url", arg |-> u] : u \in Urls}

ParsePath ==
    /\ probe.fn = "url"
    /\ probe' = [fn |-> "parse_path", arg |-> probe.arg, ret |-> parse_path(probe.arg)]
    /\ UNCHANGED <<endpoints, listener, conn>>

ParseUrlParam ==
    /\ probe.fn = "url"
    /\ probe' = [fn |-> "parse_url_param", arg |-> probe.arg,
                 ret |-> parse_url_param(probe.arg)]
    /\ UNCHANGED <<endpoints, listener, conn>>

NextUrl == ParsePath \/ ParseUrlParam

SpecUrl == InitUrl /\ [][NextUrl]_vars

(* ------------------------------------------------------------------ *)
(* Properties of the route table (SpecApp)                             *)
(* ------------------------------------------------------------------ *)
\* The positions of eps registered for exactly (path, request).
Registered(eps, path, request) ==
    {i \in 1..Len(eps) : eps[i].path = path /\ eps[i].request = request}

C1_Lookup ==
    probe.fn = "match_endpoint" =>
        LET hits == Registered(probe.on, probe.arg[1], probe.arg[2])
        IN IF hits = {}
           THEN probe.ret = Err("No matching endpoint found")
           ELSE /\ probe.ret.tag = "Ok"
                /\ probe.ret.val \in hits
                /\ \A j \in hits : probe.ret.val <= j

C1_Appends ==
    endpoints' # endpoints =>
        /\ Len(endpoints') = Len(endpoints) + 1
        /\ SubSeq(endpoints', 1, Len(endpoints)) = endpoints

\* C1: after any sequence of add_endpoint calls, each of which puts its
\* endpoint behind the ones registered before, match_endpoint(path, method)
\* returns the first endpoint in that order stored under exactly this path
\* and this method, and returns the error value "No matching endpoint found"
\* when there is none; an endpoint stored under (p, POST) is never returned
\* for (p, GET).
C1_FirstMatch == []C1_Lookup /\ [][C1_Appends]_vars

\* (test, POST) then (test, GET) are registered; the lookup of (test, GET)
\* passes over the first and returns the second.
C1_Witness ==
    /\ probe.fn = "match_endpoint"
    /\ Len(probe.on) = 2
    /\ probe.on[1].path = PathTest /\ probe.on[1].request = "POST"
    /\ probe.on[2].path = PathTest /\ probe.on[2].request = "GET"
    /\ probe.arg = <<PathTest, "GET">>
    /\ probe.ret = Ok(2)

\* C2 as the specification states it: once a second endpoint is registered
\* under the (path, method) of an earlier one, no lookup selects the earlier
\* one.
C2_EarlierUnreachable ==
    probe.fn = "match_endpoint" /\ probe.ret.tag = "Ok" =>
        \A j \in Registered(probe.on, probe.arg[1], probe.arg[2]) : j <= probe.ret.val

C2_LaterNeverSelected ==
    probe.fn = "match_endpoint" /\ probe.ret.tag = "Ok" =>
        \A j \in Registered(probe.on, probe.arg[1], probe.arg[2]) : probe.ret.val <= j

C2_RegistrationKeepsMatches ==
    \A path \in Paths, request \in Methods :
        LET before == match_endpoint(endpoints, path, request)
            after == match_endpoint(endpoints', path, request)
        IN before.tag = "Ok" =>
              /\ after.tag = "Ok"
              /\ endpoints'[after.val] = endpoints[before.val]

\* C2, as the code has it: registering a second endpoint under the
\* (path, method) of an earlier one changes no lookup.  Every (path, method)
\* that selected an endpoint before the registration selects the same
\* endpoint after it, and no lookup ever selects an endpoint that has an
\* earlier one with the same (path, method): it is the later registration
\* that is unreachable.
C2_EarlierStaysReachable ==
    []C2_LaterNeverSelected /\ [][C2_RegistrationKeepsMatches]_vars

\* Two endpoints with different handlers are registered under one
\* (path, method), and the lookup selects the earlier one.
C2_Witness ==
    /\ probe.fn = "match_endpoint"
    /\ Len(probe.on) = 2
    /\ probe.on[1].path = probe.on[2].path
    /\ probe.on[1].request = probe.on[2].request
    /\ probe.on[1].mapper # probe.on[2].mapper
    /\ probe.arg = <<probe.on[1].path, probe.on[1].request>>
    /\ probe.ret = Ok(1)

(* ------------------------------------------------------------------ *)
(* Properties of run (Spec)                                            *)
(* ------------------------------------------------------------------ *)
Ended(c) == conn[c].pc \in {"closed", "panicked", "failed"}

\* C3: on every accepted connection whose request parses, has a path and
\* matches endpoint E, the handler of E is called exactly once, with the
\* header map, the body and the query parameters the worker parsed from this
\* connection; when it returns a response, one encoding of exactly that
\* response is handed to the connection in one write_all, after the call, and
\* the worker then ends, dropping the stream, with no further step.
C3_HandlerOnceThenOneWrite ==
    \A c \in Conns :
        conn[c].endpoint # 0 =>
            LET mapper == endpoints[conn[c].endpoint].mapper
                request == [headers |-> conn[c].parsed.val.headers_map,
                            body |-> conn[c].body,
                            url_params |-> conn[c].url_params]
                called == /\ conn[c].calls = <<[mapper |-> mapper, request |-> request]>>
                          /\ conn[c].response = Call(mapper, request)
            IN \/ /\ conn[c].pc = "invoking"
                  /\ conn[c].calls = <<>>
                  /\ conn[c].wrote = <<>>
               \/ /\ conn[c].pc = "writing"
                  /\ called
                  /\ conn[c].response.tag = "Some"
                  /\ conn[c].wrote = <<>>
               \/ /\ conn[c].pc \in {"closed", "panicked"}
                  /\ called
                  /\ IF conn[c].response.tag = "Some"
                     THEN /\ Len(conn[c].wrote) = 1
                          /\ conn[c].wrote[1] \in Encodings(conn[c].response.val)
                     ELSE conn[c].pc = "closed" /\ conn[c].wrote = <<>>
                  /\ ~ENABLED Worker(c)

\* POST /test with the body "hi" matched an endpoint, the handler was called
\* and its response was written; the connection is closed.
C3_Witness ==
    \E c \in Conns :
        /\ conn[c].pc = "closed"
        /\ conn[c].endpoint # 0
        /\ conn[c].body = <<"h", "i">>
        /\ Len(conn[c].calls) = 1
        /\ Len(conn[c].wrote) = 1

\* C4: on every connection, when the lookup of the request's (path, method)
\* finds no endpoint, or the handler that was called returns None, nothing is
\* ever written to the connection and the connection is closed; no response
\* is made up in the handler's place.
C4_MissWritesNothing ==
    \A c \in Conns :
        LET missed == /\ conn[c].lookups # <<>>
                      /\ match_endpoint(endpoints, conn[c].lookups[1][1],
                                        conn[c].lookups[1][2]).tag = "Err"
            absent == /\ conn[c].calls # <<>>
                      /\ Call(conn[c].calls[1].mapper, conn[c].calls[1].request) = None
        IN missed \/ absent =>
              /\ conn[c].wrote = <<>>
              /\ conn[c].pc = "closed"
              /\ ~ENABLED Worker(c)
              /\ missed => conn[c].calls = <<>> /\ conn[c].response = None

\* One connection asked for a path nobody registered, another was answered
\* None by its handler; both are closed with nothing written.
C4_Witness ==
    \E c, d \in Conns :
        /\ conn[c].pc = "closed" /\ conn[c].lookups # <<>> /\ conn[c].endpoint = 0
        /\ conn[c].wrote = <<>>
        /\ conn[d].pc = "closed" /\ conn[d].calls # <<>> /\ conn[d].response = None
        /\ conn[d].wrote = <<>>

\* The header lines parse_headers rejects for one of these reasons: no line
\* at all, a request line without a token, a request line without a version
\* token.
Unparsable(headers) ==
    \/ headers = <<>>
    \/ Len(split_whitespace(headers[1])) < 3

\* C5: on every connection whose header lines fail to parse (no header line
\* at all, an empty request line, no version token), the worker ends at the
\* failed parse and the stream is dropped: match_endpoint is never called, no
\* handler is called, nothing is written.
C5_ParseFailureDrops ==
    \A c \in Conns :
        conn[c].pc \notin {"idle", "failed", "reading"} /\ Unparsable(conn[c].headers) =>
            /\ conn[c].pc = "panicked"
            /\ conn[c].parsed = None
            /\ conn[c].lookups = <<>>
            /\ conn[c].calls = <<>>
            /\ conn[c].wrote = <<>>
            /\ ~ENABLED Worker(c)

\* One connection sent no header line, another a request line without a
\* version token; both workers have ended at the parse.
C5_Witness ==
    \E c, d \in Conns :
        /\ conn[c].pc = "panicked" /\ conn[c].rx # <<>> /\ conn[c].headers = <<>>
        /\ conn[d].pc = "panicked" /\ conn[d].headers # <<>>
        /\ Len(split_whitespace(conn[d].headers[1])) = 2

\* C6: the accept loop never ends because of an error.  Whatever has
\* happened - an Err item from the listener, a worker that panicked on a
\* failed parse, a missing path or a failed write, a lookup miss - run is
\* still accepting, and the next incoming connection is accepted and given a
\* worker.
C6_ListenerSurvives ==
    /\ listener = "accepting"
    /\ \A c \in Conns : NextConn(c) => ENABLED Accept(c)

\* The first accept failed; the connection after it was accepted and served.
C6_Witness ==
    \E c, d \in Conns :
        /\ c < d
        /\ conn[c].pc = "failed"
        /\ conn[d].pc = "closed"
        /\ conn[d].wrote # <<>>

\* C7: whatever the other connections do, a connection's outcome is the one
\* ReadAndRoute, the matched handler and the encoder give for the bytes this
\* connection delivered and the route table: the same locals, the same
\* lookup, the same handler called with the same request, and one encoding
\* of the handler's response (the clock and the iteration order of the
\* header map aside).  Two workers that both have a step to take can take it
\* in either order.
C7_OutcomeIsOwn ==
    /\ \A c \in Conns :
          conn[c].pc \in {"invoking", "writing", "closed", "panicked"} =>
              LET alone == ReadAndRoute(endpoints, conn[c].rx, conn[c].fin).locals
                  request == [headers |-> alone.parsed.val.headers_map,
                              body |-> alone.body,
                              url_params |-> alone.url_params]
                  mapper == endpoints[alone.endpoint].mapper
                  response == Call(mapper, request)
              IN /\ \A k \in DOMAIN NoLocals \ {"response"} : conn[c][k] = alone[k]
                 /\ IF alone.pc # "invoking"
                    THEN /\ conn[c].pc = alone.pc
                         /\ conn[c].calls = <<>>
                         /\ conn[c].response = None
                         /\ conn[c].wrote = <<>>
                    ELSE \/ /\ conn[c].pc = "invoking"
                            /\ conn[c].calls = <<>>
                            /\ conn[c].wrote = <<>>
                         \/ /\ conn[c].calls = <<[mapper |-> mapper, request |-> request]>>
                            /\ conn[c].response = response
                            /\ \/ conn[c].pc = "writing" /\ conn[c].wrote = <<>>
                               \/ /\ conn[c].pc = "closed"
                                  /\ response = None
                                  /\ conn[c].wrote = <<>>
                               \/ /\ conn[c].pc \in {"closed", "panicked"}
                                  /\ response # None
                                  /\ Len(conn[c].wrote) = 1
                                  /\ conn[c].wrote[1] \in Encodings(response.val)
    /\ \A c, d \in Conns :
          c # d /\ conn[c].pc \in {"invoking", "writing"}
                /\ conn[d].pc \in {"invoking", "writing"} =>
              ENABLED Worker(c) /\ ENABLED Worker(d)

\* Two connections with different requests were being served at once; the
\* one accepted later has its response while the earlier is not done.
C7_Witness ==
    \E c, d \in Conns :
        /\ c < d
        /\ conn[c].rx # conn[d].rx
        /\ conn[c].pc = "invoking"
        /\ conn[d].pc = "closed"
        /\ conn[d].wrote # <<>>

\* C8: from the moment run accepts, no step of the accept loop, of a peer or
\* of a worker, in any interleaving, changes the sequence of endpoints.
C8_TableNeverChanges == [][endpoints' = endpoints]_vars

\* Every connection of the run has ended, handlers were called, and the
\* table is one of the tables run started with.
C8_Witness ==
    /\ \A c \in Conns : Ended(c)
    /\ \E c \in Conns : conn[c].calls # <<>> /\ conn[c].wrote # <<>>
    /\ \E c \in Conns : conn[c].calls # <<>> /\ conn[c].response = None
    /\ endpoints \in Apps

\* The worker of c waits in handle_connection for bytes its peer has not
\* sent.
Stalled(c) ==
    /\ conn[c].pc = "reading"
    /\ Delivered(conn[c].rx, conn[c].fin) = Blocked

\* The worker of d has a step to take: its request has arrived in full and
\* it has not ended.
Servable(d) ==
    \/ conn[d].pc \in {"invoking", "writing"}
    \/ conn[d].pc = "reading" /\ Delivered(conn[d].rx, conn[d].fin) # Blocked

\* C9: while the worker of a connection waits for headers or for a declared
\* body its peer does not finish, the accept loop accepts the next
\* connection, and the worker of every other connection whose request has
\* arrived in full can take each of its steps up to its end: leave
\* handle_connection and route, call the handler, write.
C9_StallBlocksOnlyItself ==
    \A c \in Conns :
        Stalled(c) =>
            /\ \A d \in Conns : NextConn(d) => ENABLED Accept(d)
            /\ \A d \in Conns \ {c} :
                  Servable(d) =>
                      IF conn[d].pc = "reading"
                      THEN ReadEnabled(d)
                      ELSE ENABLED (Invoke(d) \/ Write(d))

\* The first connection still waits for the rest of its request; the one
\* accepted after it has been served and is closed.
C9_Witness ==
    \E c, d \in Conns :
        /\ c < d
        /\ Stalled(c)
        /\ conn[d].pc = "closed"
        /\ conn[d].wrote # <<>>

(* ------------------------------------------------------------------ *)
(* Properties of parse_headers (SpecParse)                             *)
(* ------------------------------------------------------------------ *)
\* How each variant of RequestType is spelled on the request line.
Spelled ==
    [GET |-> <<"G","E","T">>, HEAD |-> <<"H","E","A","D">>,
     POST |-> <<"P","O","S","T">>, PUT |-> <<"P","U","T">>,
     PATCH |-> <<"P","A","T","C","H">>, UPDATE |-> <<"U","P","D","A","T","E">>,
     DELETE |-> <<"D","E","L","E","T","E">>,
     CONNECT |-> <<"C","O","N","N","E","C","T">>,
     OPTIONS |-> <<"O","P","T","I","O","N","S">>,
     TRACE |-> <<"T","R","A","C","E">>]

\* The nine methods the specification lists.
NineMethods == RequestType \ {"UPDATE"}

\* C10 as the specification states it: a request line whose first token is
\* none of the nine methods and whose version token is present parses, to a
\* request whose method is no variant of the enumeration but an
\* "unrecognized" state.
C10_UnknownMethodParses ==
    probe.fn = "parse_headers" /\ probe.arg # <<>> =>
        LET split_request == split_whitespace(probe.arg[1])
        IN Len(split_request) >= 3
           /\ split_request[1] \notin {Spelled[v] : v \in NineMethods} =>
               /\ probe.ret.tag = "Ok"
               /\ probe.ret.val.request_type \notin RequestType

\* C10, as the code has it: RequestType has ten variants, the nine methods
\* and UPDATE, and none for an unrecognized token.  A request line whose
\* first token is not the exact spelling of one of the ten fails to parse,
\* with "Invalid request type: " and the token, whether or not a version
\* token follows; a first token UPDATE with a version token parses to the
\* variant UPDATE.  The rejection happens in parse_headers, not at lookup.
C10_UnknownMethodRejected ==
    probe.fn = "parse_headers" /\ probe.arg # <<>> =>
        LET split_request == split_whitespace(probe.arg[1])
        IN Len(split_request) >= 1 =>
              IF \E v \in RequestType : Spelled[v] = split_request[1]
              THEN Len(split_request) >= 3 =>
                      /\ probe.ret.tag = "Ok"
                      /\ Spelled[probe.ret.val.request_type] = split_request[1]
              ELSE probe.ret = Err([msg |-> "Invalid request type: ",
                                    arg |-> split_request[1]])

\* "BREW /test HTTP/1.1" was parsed and rejected for its first token.
C10_Witness ==
    /\ probe.fn = "parse_headers"
    /\ probe.arg # <<>>
    /\ split_whitespace(probe.arg[1]) = <<<<"B","R","E","W">>, Target, HttpVersion11>>
    /\ probe.ret = Err([msg |-> "Invalid request type: ", arg |-> <<"B","R","E","W">>])

(* ------------------------------------------------------------------ *)
(* run on a target without a path (Spec)                               *)
(* ------------------------------------------------------------------ *)
\* The request of c parsed and has a target, and parse_path finds no path
\* in the target.
NoPath(c) ==
    /\ conn[c].parsed.tag = "Some"
    /\ conn[c].parsed.val.url.tag = "Some"
    /\ parse_path(conn[c].parsed.val.url.val) = None

\* C11 as the specification states it: when the request target has no path
\* the worker makes no lookup, calls no handler, writes nothing and ends the
\* connection without a failure.
C11_NoPathEndsQuietly ==
    \A c \in Conns :
        NoPath(c) =>
            /\ conn[c].pc = "closed"
            /\ conn[c].lookups = <<>>
            /\ conn[c].calls = <<>>
            /\ conn[c].wrote = <<>>

(* ------------------------------------------------------------------ *)
(* Properties of handle_connection (SpecRead)                          *)
(* ------------------------------------------------------------------ *)
\* The stream cut at every "\n": all segments but the last are lines that
\* have their terminator, the last is what follows the last terminator.
RawLines(bytes) == split(bytes, LF)

\* The terminated lines without their terminators, "\n" or "\r\n".
TerminatedLines(raw) ==
    [i \in 1..(Len(raw) - 1) |->
        IF raw[i] # <<>> /\ raw[i][Len(raw[i])] = "\r"
        THEN SubSeq(raw[i], 1, Len(raw[i]) - 1) ELSE raw[i]]

\* The position of the first empty line among the terminated lines, 0 when
\* there is none.
BlankAt(lines) ==
    LET blanks == {i \in 1..Len(lines) : lines[i] = <<>>}
    IN IF blanks = {} THEN 0 ELSE CHOOSE i \in blanks : \A j \in blanks : i <= j

\* The lines that precede the first empty line, in order, without their
\* terminators; without an empty line, every line up to the end of the stream.
LinesBeforeBlank(raw) ==
    LET lines == TerminatedLines(raw)
        k == BlankAt(lines)
    IN IF k # 0 THEN SubSeq(lines, 1, k - 1)
       ELSE lines \o (IF raw[Len(raw)] = <<>> THEN <<>> ELSE <<raw[Len(raw)]>>)

\* The bytes that follow the first empty line.
AfterBlank(raw) ==
    LET k == BlankAt(TerminatedLines(raw))
    IN IF k = 0 THEN <<>>
       ELSE Join(SubSeq(raw, k + 1, Len(raw) - 1), LF) \o raw[Len(raw)]

\* The length one header line declares: the text between the first colon and
\* the next one (or the end of the line), trimmed, read as a decimal number;
\* 0 when it is no number.
DeclaredBy(line) ==
    LET value == From(line, 15 + 1)
        colon == Find(value, <<":">>)
        text == trim(IF colon = 0 THEN value ELSE SubSeq(value, 1, colon - 1))
        digits == IF text # <<>> /\ text[1] = "+" THEN Tail(text) ELSE text
    IN IF digits # <<>> /\ Len(digits) <= MaxLenDigits
          /\ \A i \in 1..Len(digits) : digits[i] \in {"0","1","2","3","4","5","6","7","8","9"}
       THEN DecimalValue(digits)
       ELSE 0

\* The header lines that start with "content-length:" in any case.
LengthLines(headers) ==
    {i \in 1..Len(headers) :
        /\ Len(headers[i]) >= 15
        /\ to_lowercase(SubSeq(headers[i], 1, 15)) = <<"c","o","n","t","e","n","t","-","l","e","n","g","t","h",":">>}

\* The declared length L of a header block: that of the last line declaring
\* one, 0 when no line does.
DeclaredLength(headers) ==
    LET at == LengthLines(headers)
    IN IF at = {} THEN 0
       ELSE DeclaredBy(headers[CHOOSE i \in at : \A j \in at : i >= j])

\* The first min(L, bytes available) bytes after the empty line.
FirstBytes(raw) ==
    LET after == AfterBlank(raw)
        L == DeclaredLength(LinesBeforeBlank(raw))
    IN IF Len(after) >= L THEN SubSeq(after, 1, L) ELSE after

Separators(line) ==
    {i \in 1..(Len(line) - 1) : line[i] = ":" /\ line[i + 1] = " "}

\* The position of the first ": " of a line that has one.
FirstSeparator(line) ==
    CHOOSE i \in Separators(line) : \A j \in Separators(line) : i <= j

\* The text before the first ": " and the text after it.
NameOf(line) == SubSeq(line, 1, FirstSeparator(line) - 1)
ValueOf(line) == SubSeq(line, FirstSeparator(line) + 2, Len(line))

\* text has no whitespace at either end.
Trimmed(text) ==
    text = <<>> \/ (~IsWhitespace(text[1]) /\ ~IsWhitespace(text[Len(text)]))

\* A line "Name: Value": a name and a value around the first ": ", neither
\* with whitespace at its ends.
IsNameValue(line) ==
    /\ Separators(line) # {}
    /\ NameOf(line) # <<>> /\ Trimmed(NameOf(line))
    /\ ValueOf(line) # <<>> /\ Trimmed(ValueOf(line))

CodeText == (200 :> <<"2","0","0">>) @@ (404 :> <<"4","0","4">>)

\* The positions of text at which a CRLF starts.
LineEnds(text) ==
    {i \in 1..(Len(text) - 1) : text[i] = "\r" /\ text[i + 1] = "\n"}

FirstLineEnd(text) ==
    CHOOSE i \in LineEnds(text) : \A j \in LineEnds(text) : i <= j

\* The lines of text up to its first empty line, and what follows that
\* empty line; Malformed when text has no empty line.
Malformed == [tag |-> "Malformed"]

RECURSIVE HeadAndBody(_, _)
HeadAndBody(text, lines) ==
    IF LineEnds(text) = {} THEN Malformed
    ELSE LET e == FirstLineEnd(text)
             rest == SubSeq(text, e + 2, Len(text))
         IN IF e = 1 THEN [tag |-> "Message", lines |-> lines, body |-> rest]
            ELSE HeadAndBody(rest, Append(lines, SubSeq(text, 1, e - 1)))

\* The output of the encoder taken apart.
Wire == HeadAndBody(probe.ret, <<>>)

\* The entries the header mapping has when it is written out: the handler's,
\* with Date and Content-Length added or replaced.
WrittenNames == DOMAIN probe.arg.headers \cup {HdrDate, HdrContentLength}

\* C14: for every response the bytes written are the status line
\* "HTTP/1.1 <code> <reason> " with one space before its CRLF, then exactly
\* one line per entry of the header mapping, each "Name: Value" and in any
\* order, then one empty line, then the body if there is one and nothing
\* otherwise.
C14_WireLayout ==
    probe.fn = "write_connection" =>
        /\ Wire.tag = "Message"
        /\ Wire.lines # <<>>
        /\ Wire.lines[1] = <<"H","T","T","P","/","1",".","1"," ">> \o CodeText[probe.arg.status_code] \o <<" ">>
                           \o probe.arg.reason \o <<" ">>
        /\ Len(Wire.lines) = 1 + Cardinality(WrittenNames)
        /\ \A k \in WrittenNames :
              \E i \in 2..Len(Wire.lines) :
                  /\ Separators(Wire.lines[i]) # {}
                  /\ NameOf(Wire.lines[i]) = k
                  /\ k \in DOMAIN probe.arg.headers \ {HdrDate, HdrContentLength} =>
                        ValueOf(Wire.lines[i]) = probe.arg.headers[k]
        /\ Wire.body = (IF probe.arg.response_body.tag = "Some"
                        THEN probe.arg.response_body.val ELSE <<>>)

\* A 404 "Not Found" with Content-Type, Date and Content-Length supplied and
\* the body "Hi!" was written: five lines, then the body.
C14_Witness ==
    /\ probe.fn = "write_connection"
    /\ probe.arg.status_code = 404
    /\ probe.arg.reason = <<"N","o","t"," ","F","o","u","n","d">>
    /\ HdrContentType \in DOMAIN probe.arg.headers
    /\ probe.arg.response_body = Some(<<"H","i","!">>)
    /\ Wire.tag = "Message"
    /\ Wire.lines[1] = <<"H","T","T","P","/","1",".","1"," ","4","0","4"," ","N","o","t"," ","F","o","u","n","d"," ">>
    /\ Wire.lines[2] = <<"C","o","n","t","e","n","t","-","T","y","p","e",":"," ","t","e","x","t","/","p","l","a","i","n">>
    /\ Wire.body = <<"H","i","!">>

\* The lines of the output, after the status line, whose name is k.
LinesNamed(k) ==
    {i \in 2..Len(Wire.lines) :
        Separators(Wire.lines[i]) # {} /\ NameOf(Wire.lines[i]) = k}

Least(positions) == CHOOSE i \in positions : \A j \in positions : i <= j
Greatest(positions) == CHOOSE i \in positions : \A j \in positions : j <= i

\* The positions of text holding the character ch.
PositionsOf(text, ch) == {i \in 1..Len(text) : text[i] = ch}

\* The text after the first "://" of url, or url without one.
PastScheme(url) ==
    LET at == {i \in 1..(Len(url) - 2) :
                  url[i] = ":" /\ url[i + 1] = "/" /\ url[i + 2] = "/"}
    IN IF at = {} THEN url ELSE SubSeq(url, Least(at) + 3, Len(url))

\* text without the "/" at its ends, for a text that is not all "/".
Unslashed(text) ==
    LET kept == {i \in 1..Len(text) : text[i] # "/"}
    IN SubSeq(text, Least(kept), Greatest(kept))

\* The path of url by the rule of the documentation.
PathOf(url) ==
    LET rest == PastScheme(url)
        slashes == PositionsOf(rest, "/")
    IN IF slashes = {} THEN None
       ELSE LET after == SubSeq(rest, Least(slashes) + 1, Len(rest))
            IN IF \A i \in 1..Len(after) : after[i] = "/" THEN None
               ELSE Some(Unslashed(after))

\* C16: for every input string parse_path returns what this rule gives:
\* skip past the first "://" if there is one, take what follows the first
\* "/" of the rest, strip every "/" at its two ends; absent when the rest
\* has no "/" or nothing is left after stripping.
C16_PathRule ==
    probe.fn = "parse_path" => probe.ret = PathOf(probe.arg)

\* parse_path was applied to "https://example.com/a/b/" and gave "a/b".
C16_Witness ==
    /\ probe.fn = "parse_path"
    /\ probe.arg = <<"h","t","t","p","s",":","/","/","e","x","a","m","p","l","e",".","c","o","m","/","a","/","b","/">>
    /\ probe.ret = Some(<<"a","/","b">>)

\* The text after the first "?" of url; empty without a "?".
QueryOf(url) ==
    LET marks == PositionsOf(url, "?")
    IN IF marks = {} THEN <<>> ELSE SubSeq(url, Least(marks) + 1, Len(url))

\* The segments of a query: the positions after which one starts, and the
\* segment starting after position a.
SegmentStarts(query) == {0} \cup PositionsOf(query, "&")
SegmentAfter(query, a) ==
    LET stops == {i \in PositionsOf(query, "&") \cup {Len(query) + 1} : i > a}
    IN SubSeq(query, a + 1, Least(stops) - 1)

\* Key and value of a segment that has an "=".
KeyOf(segment) == SubSeq(segment, 1, Least(PositionsOf(segment, "=")) - 1)
ParamOf(segment) ==
    SubSeq(segment, Least(PositionsOf(segment, "=")) + 1, Len(segment))

\* The starts of the segments of a query that have an "=".
Pairs(query) ==
    {a \in SegmentStarts(query) : PositionsOf(SegmentAfter(query, a), "=") # {}}

\* C17: for every input string parse_url_param returns the empty mapping
\* when the string has no "?", and otherwise the mapping whose keys are the
\* texts before the first "=" of the "&"-separated segments after the first
\* "?" that have an "=", each with the text after that "=" in the last
\* segment with this key, character for character.
C17_ParamRule ==
    probe.fn = "parse_url_param" =>
        LET query == QueryOf(probe.arg)
            pairs == Pairs(query)
        IN /\ PositionsOf(probe.arg, "?") = {} => probe.ret = EmptyMap
           /\ DOMAIN probe.ret = {KeyOf(SegmentAfter(query, a)) : a \in pairs}
           /\ \A a \in pairs :
                 (\A b \in pairs :
                     b > a => KeyOf(SegmentAfter(query, b)) # KeyOf(SegmentAfter(query, a)))
                 => probe.ret[KeyOf(SegmentAfter(query, a))]
                      = ParamOf(SegmentAfter(query, a))

\* parse_url_param was applied to "/a?k=v&k=w" and gave k -> w.
C17_Witness ==
    /\ probe.fn = "parse_url_param"
    /\ probe.arg = <<"/","a","?","k","=","v","&","k","=","w">>
    /\ DOMAIN probe.ret = {<<"k">>}
    /\ probe.ret[<<"k">>] = <<"w">>

(* ------------------------------------------------------------------ *)
(* handle_connection on a length that is no number (SpecRead)          *)
(* ------------------------------------------------------------------ *)
\* The value of a header line named Content-Length: the text after the
\* colon that ends the name, without the whitespace around it.
LengthValue(line) == trim(SubSeq(line, 15 + 1, Len(line)))

\* text reads as a non-negative integer.
IsLength(text) ==
    LET digits == IF text # <<>> /\ text[1] = "+" THEN Tail(text) ELSE text
    IN digits # <<>> /\ \A i \in 1..Len(digits) : IsDigit(digits[i])

\* C18: when the header lines are text and none of them is a Content-Length
\* header, in any case, whose value reads as a non-negative integer,
\* handle_connection returns without an error all header lines and the empty
\* body.
C18_NoNumberNoBody ==
    probe.fn = "handle_connection" =>
        LET raw == RawLines(probe.bytes)
            headers == LinesBeforeBlank(raw)
        IN (/\ \A i \in 1..Len(headers) : IsUtf8(headers[i])
            /\ \A i \in LengthLines(headers) : ~IsLength(LengthValue(headers[i])))
           => probe.ret = [tag |-> "Ready", headers |-> headers, body |-> <<>>]

(* ------------------------------------------------------------------ *)
(* Properties of parse_headers: the header map (SpecParse)             *)
(* ------------------------------------------------------------------ *)
\* text without the whitespace at its two ends.
Stripped(text) ==
    LET kept == {i \in 1..Len(text) : ~IsWhitespace(text[i])}
    IN IF kept = {} THEN <<>> ELSE SubSeq(text, Least(kept), Greatest(kept))

\* The header lines of a block (those after the first) that have a ": ".
Fields(block) == {i \in 2..Len(block) : Separators(block[i]) # {}}

\* C19: every header block whose request line parses on its own parses,
\* whatever its header lines, and the header map has exactly the
\* names of the lines after the request line that contain ": ", a name
\* being the text before the first ": " of the line without the whitespace
\* around it; a line without ": " adds nothing and is no error; each name
\* maps to the text after the first ": " of the last line with this name,
\* without the whitespace around it.
C19_HeaderMapRule ==
    (/\ probe.fn = "parse_headers"
     /\ probe.arg # <<>>
     /\ parse_headers(<<probe.arg[1]>>).tag = "Ok") =>
        LET block == probe.arg
            map == probe.ret.val.headers_map
        IN /\ probe.ret.tag = "Ok"
           /\ DOMAIN map = {Stripped(NameOf(block[i])) : i \in Fields(block)}
           /\ \A i \in Fields(block) :
                 (\A j \in Fields(block) :
                     j > i => Stripped(NameOf(block[j])) # Stripped(NameOf(block[i])))
                 => map[Stripped(NameOf(block[i]))] = Stripped(ValueOf(block[i]))

\* "Host: h" followed by "Host:  z " was parsed: the map has the one name
\* Host with the later value, trimmed.
C19_Witness ==
    /\ probe.fn = "parse_headers"
    /\ Len(probe.arg) = 3
    /\ probe.arg[2] = <<"H","o","s","t",":"," ","h">>
    /\ probe.arg[3] = <<"H","o","s","t",":"," "," ","z"," ">>
    /\ probe.ret.tag = "Ok"
    /\ DOMAIN probe.ret.val.headers_map = {<<"H","o","s","t">>}
    /\ probe.ret.val.headers_map[<<"H","o","s","t">>] = <<"z">>

(* ------------------------------------------------------------------ *)
(* Properties of parse_headers: the failures (SpecParse)               *)
(* ------------------------------------------------------------------ *)
NoHeaders == Err([msg |-> "No headers to parse.", arg |-> <<>>])
InvalidRequestLine == Err([msg |-> "Invalid request line.", arg |-> <<>>])
InvalidVersion == Err([msg |-> "Invalid HTTP version.", arg |-> <<>>])

\* The tokens of the request line of the block parsed.
Tokens == split_whitespace(probe.arg[1])

\* The block parsed, with the third token of its request line replaced by
\* "HTTP/1.1".
WithVersion11 ==
    <<Tokens[1] \o <<" ">> \o Tokens[2] \o <<" ">> \o HttpVersion11>> \o Tail(probe.arg)

\* C20 as the specification states it: no lines give the no-headers error,
\* a request line without a token the invalid-request-line error, a request
\* line without a third token the invalid-version error, and a third token
\* other than "HTTP/1.1" a successful parse with the unsupported-version
\* value carrying the token.
C20_FailuresByTokenCount ==
    probe.fn = "parse_headers" =>
        IF probe.arg = <<>> THEN probe.ret = NoHeaders
        ELSE /\ Len(Tokens) = 0 => probe.ret = InvalidRequestLine
             /\ Len(Tokens) \in {1, 2} => probe.ret = InvalidVersion
             /\ (Len(Tokens) >= 3 /\ Tokens[3] # HttpVersion11) =>
                   /\ probe.ret.tag = "Ok"
                   /\ probe.ret.val.http_type = [tag |-> "NotSupported", val |-> Tokens[3]]

\* C20, as the code has it: no lines give the no-headers error and a request
\* line without a token the invalid-request-line error.  The first token is
\* examined before the third: when it is the spelling of a variant of
\* RequestType, a missing third token gives the invalid-version error and
\* a third token other than "HTTP/1.1" gives a successful parse whose
\* version is the unsupported-version value carrying the token and whose
\* other parts are those of the same block with "HTTP/1.1"; when it is not,
\* the parse fails for the first token, with or without a third.
C20_FailuresInOrder ==
    probe.fn = "parse_headers" =>
        IF probe.arg = <<>> THEN probe.ret = NoHeaders
        ELSE IF Len(Tokens) = 0 THEN probe.ret = InvalidRequestLine
        ELSE IF \E v \in RequestType : Spelled[v] = Tokens[1]
        THEN /\ Len(Tokens) \in {1, 2} => probe.ret = InvalidVersion
             /\ (Len(Tokens) >= 3 /\ Tokens[3] # HttpVersion11) =>
                   /\ probe.ret.tag = "Ok"
                   /\ probe.ret.val.http_type = [tag |-> "NotSupported", val |-> Tokens[3]]
                   /\ parse_headers(WithVersion11)
                        = Ok([probe.ret.val EXCEPT !.http_type = OnePointOne])
        ELSE /\ probe.ret.tag = "Err"
             /\ probe.ret.err.msg = "Invalid request type: "

\* "GET /test HTTP/1.0" with the line "Host: h" was parsed: the version is
\* the unsupported-version value with the token, target and map are there.
C20_Witness ==
    /\ probe.fn = "parse_headers"
    /\ probe.arg = <<<<"G","E","T"," ","/","t","e","s","t"," ","H","T","T","P","/","1",".","0">>, <<"H","o","s","t",":"," ","h">>>>
    /\ probe.ret.tag = "Ok"
    /\ probe.ret.val.http_type = [tag |-> "NotSupported",
                                  val |-> <<"H","T","T","P","/","1",".","0">>]
    /\ probe.ret.val.url = Some(Target)
    /\ DOMAIN probe.ret.val.headers_map = {<<"H","o","s","t">>}

(* ------------------------------------------------------------------ *)
(* run on a target with a query string (Spec)                          *)
(* ------------------------------------------------------------------ *)
\* The request of c parsed, and its target is "/" and the path of endpoint e
\* followed by a query string, its method the method of e.
AsksWithQuery(c, e) ==
    LET prefix == <<"/">> \o endpoints[e].path \o <<"?">>
    IN /\ conn[c].pc \notin {"idle", "failed", "reading"}
       /\ conn[c].parsed.tag = "Some"
       /\ conn[c].parsed.val.url.tag = "Some"
       /\ Len(conn[c].parsed.val.url.val) >= Len(prefix)
       /\ SubSeq(conn[c].parsed.val.url.val, 1, Len(prefix)) = prefix
       /\ conn[c].parsed.val.request_type = endpoints[e].request

\* C21: on every connection whose request is "M /p?query HTTP/1.1" while the
\* table holds an endpoint (p, M), the lookup is made with the path p,
\* without the query string, an endpoint is found, and the worker holds the
\* parameters of the query string for the handler.
C21_LookupWithoutQuery ==
    \A c \in Conns :
        \A e \in 1..Len(endpoints) :
            AsksWithQuery(c, e) =>
                /\ conn[c].lookups = <<<<endpoints[e].path, endpoints[e].request>>>>
                /\ conn[c].endpoint # 0
                /\ conn[c].url_params = parse_url_param(conn[c].parsed.val.url.val)

(* ------------------------------------------------------------------ *)
(* Properties of parse_headers: the target of a parse (SpecParse)      *)
(* ------------------------------------------------------------------ *)
\* The worker given these header lines leaves through the branch for a
\* parse without a target (the else of `if let Some(url)`, app.rs:104).
LeavesWithoutTarget(headers, eps) ==
    LET w == Routed(headers, <<>>, eps)
    IN w.parsed.tag = "Some" /\ w.parsed.val.url.tag = "None"

LinesNamedAnyCase(k) ==
    {i \in 2..Len(Wire.lines) :
        /\ Separators(Wire.lines[i]) # {}
        /\ to_lowercase(NameOf(Wire.lines[i])) = to_lowercase(k)}

\* C24: for every response, whatever entries its header map holds under
\* Content-Length or Date in any letter case, the output has exactly one
\* line whose name is Content-Length up to letter case and exactly one whose
\* name is Date up to letter case, and the value of the former is the byte
\* length of the body.
C24_OneLengthOneDateAnyCase ==
    probe.fn = "write_connection" =>
        /\ Wire.tag = "Message"
        /\ Cardinality(LinesNamedAnyCase(HdrDate)) = 1
        /\ Cardinality(LinesNamedAnyCase(HdrContentLength)) = 1
        /\ \A i \in LinesNamedAnyCase(HdrContentLength) :
              /\ \A j \in 1..Len(ValueOf(Wire.lines[i])) : IsDigit(ValueOf(Wire.lines[i])[j])
              /\ DecimalValue(ValueOf(Wire.lines[i]))
                    = (IF probe.arg.response_body.tag = "Some"
                       THEN Len(probe.arg.response_body.val) ELSE 0)
====
